---- MODULE Spec2Model ----
(***************************************************************************)
(* OnemapDownloader (src/scripts/onemap_building_download.py): the asyncio *)
(* download of every postal code, as a state machine.                      *)
(*                                                                         *)
(* One coroutine (download_data) walks the list of postal codes, creates   *)
(* one process_postal coroutine per postal code and awaits them batch by   *)
(* batch with asyncio.gather.  A process_postal coroutine is suspended     *)
(* only while one of its HTTP requests is in flight, so a step of the      *)
(* model is either a step of download_data or the arrival of the answer to *)
(* one request, followed by everything the coroutine does until it issues  *)
(* its next request or returns.                                            *)
(*                                                                         *)
(* BuildingCorrector (src/scripts/onemap_building_correct.py): load_data   *)
(* and deduplicate, as two steps on a table drawn from the small tables.   *)
(***************************************************************************)
EXTENDS Integers, Sequences, FiniteSets

(* ------------------------------------------------------------------ *)
(* Sizes.  The source's values are 820000 postal codes, batches of     *)
(* 1000 and a semaphore of 20; the model keeps the code and scales the *)
(* numbers.                                                            *)
(* ------------------------------------------------------------------ *)
NumKeys == 4          \* len(postal_codes); the source has 820000 (line 101)
BatchSize == 2        \* the period of `i % 1000 == 0`; the source has 1000 (line 113)
SemPermits == 2       \* asyncio.Semaphore(20); the source has 20 (line 105)
MaxItems == 2         \* largest number of items in one page's `results`
MaxFaults == 3        \* requests of one run that do not answer 200
MaxSinkFaults == 2    \* writes to error_log.txt that fail, where the file can fail
MaxRows == 3          \* rows of the table BuildingCorrector reads
NumCodes == 2         \* distinct postal codes in that table
\* fetch_postal(..., retries=3)
Retries == 3
\* `if response.status == 200`
HTTP_OK == 200

\* `range(10000, 830000)`: the first integer, and the end of the source's range
FirstCode == 10000
SourceEnd == 830000
\* `f"{i:06d}"`
Width == 6

Keys == 0 .. NumKeys - 1          \* the index i of enumerate(postal_codes)

(* ------------------------------------------------------------------ *)
(* The postal codes: strings of decimal digits, kept as sequences of   *)
(* the digits' values.                                                 *)
(* ------------------------------------------------------------------ *)
RECURSIVE Digits(_)
\* the decimal digits of n >= 0, most significant first
Digits(n) == IF n < 10 THEN <<n>> ELSE Append(Digits(n \div 10), n % 10)

RECURSIVE ZeroPad(_, _)
\* zeros put in front of s until it has w digits; a longer s is left as it is
ZeroPad(s, w) == IF Len(s) < w THEN ZeroPad(<<0>> \o s, w) ELSE s

\* `str(i)`: no padding
format_d(n) == Digits(n)

\* `f"{i:06d}"`
format_06d(n) == ZeroPad(Digits(n), Width)

\* postal_codes[n], n counted from 0; the model runs over the first NumKeys of them
postal_codes(n) == format_06d(FirstCode + n)
Statuses == {500}                 \* the non-200 statuses the transport answers with
Exceptions == {1}                 \* the texts str(e) of non-timeout exceptions

(* ------------------------------------------------------------------ *)
(* What the transport can answer to one request.                       *)
(* ------------------------------------------------------------------ *)
Timeout == [kind |-> "timeout", status |-> 0, found |-> 0, totalNumPages |-> 0, items |-> 0, text |-> 0]
Http(s) == [kind |-> "http", status |-> s, found |-> 0, totalNumPages |-> 0, items |-> 0, text |-> 0]
Raise(e) == [kind |-> "error", status |-> 0, found |-> 0, totalNumPages |-> 0, items |-> 0, text |-> e]
Json(f, p, n) == [kind |-> "ok", status |-> HTTP_OK, found |-> f, totalNumPages |-> p, items |-> n, text |-> 0]

Failures == {Timeout} \cup {Http(s) : s \in Statuses} \cup {Raise(e) : e \in Exceptions}

(* The remote data: how many pages of buildings each postal code has and *)
(* how many items each page holds.  The page counts repeat every four    *)
(* postal codes.  The first postal code has none; the answer for it has  *)
(* found = 0 and a page count of 0 or 1.                                 *)
PagesOf == <<0, 1, 2, 3>>
\* largest totalNumPages of the remote data
MaxPages == PagesOf[Len(PagesOf)]
TotalNumPages(k) == PagesOf[(k % Len(PagesOf)) + 1]
ItemsOn(k, p) == 1 + ((k + p) % MaxItems)
RECURSIVE FoundUpTo(_, _)
FoundUpTo(k, p) == IF p = 0 THEN 0 ELSE ItemsOn(k, p) + FoundUpTo(k, p - 1)
Found(k) == FoundUpTo(k, TotalNumPages(k))

\* the answers of the transport, for every postal code and page
ProbeAnswers ==
    [k \in Keys |->
        Failures \cup {Json(Found(k), TotalNumPages(k), IF TotalNumPages(k) = 0 THEN 0 ELSE ItemsOn(k, 1))}
                 \cup (IF Found(k) = 0 THEN {Json(0, 1, 0)} ELSE {})]
PageAnswers ==
    [k \in Keys |-> [p \in 0 .. MaxPages |->
        Failures \cup {Json(Found(k), TotalNumPages(k), ItemsOn(k, p))}]]

\* what the transport can answer to the first-page request of k
ProbeResponses(k) == ProbeAnswers[k]
\* what the transport can answer to the request of page p of k
PageResponses(k, p) == PageAnswers[k][p]

None == [kind |-> "none", status |-> 0, found |-> 0, totalNumPages |-> 0, items |-> 0, text |-> 0]

(* ------------------------------------------------------------------ *)
(* Error log lines: "Error with postal code <k>: <error>".  The file   *)
(* is kept as the lines of each postal code, in the order written.     *)
(* ------------------------------------------------------------------ *)
HttpError(s) == [msg |-> "HTTP", arg |-> s]                      \* f"HTTP {response.status}"
TimeoutAfterRetries == [msg |-> "Timeout after retries", arg |-> 0]
ExceptionText(e) == [msg |-> "exception", arg |-> e]             \* str(e)
PageTimeout(p) == [msg |-> "Page timeout", arg |-> p]            \* f"Page {page} timeout"

\* log_error appends one line to the file
log_error(log, error) == Append(log, error)
\* the calls of log_error one step makes: none or one
log_errors(log, errors) == IF errors = <<>> THEN log ELSE log_error(log, errors[1])

\* str(e) of the OSError that `open(self.error_log_filename, 'a')` raises
OSErrorText == ExceptionText(2)

VARIABLES
    mainpc,     \* where download_data / run stands
    i,          \* the loop index of download_data
    postal_code,\* the loop variable of download_data
    sem,        \* the semaphore's value
    permit,     \* the postal codes whose `async with sem` block is open
    tasks,      \* the list `tasks`, as the postal codes of its coroutines
    pc,         \* per postal code: where its process_postal coroutine stands
    attempt,    \* per postal code: fetch_postal's loop variable
    result,     \* per postal code: what fetch_postal returned
    page,       \* per postal code: process_postal's loop variable
    records,    \* per postal code: process_postal's list `records`
    errlog,     \* per postal code: its lines of error_log.txt
    probeLog,   \* per postal code: the answers to its first-page requests
    pageLog,    \* per postal code: the <<page, answer>> of its page requests
    df,         \* self.df, the rows as <<postal code, page, item>>
    csv,        \* the contents of the output file, once saved
    faults,     \* requests that did not answer 200 so far
    submitted,  \* per postal code: how often its coroutine was handed to gather
    sinkFaults, \* writes to error_log.txt that can still fail
    sinkLost,   \* per postal code: its writes to error_log.txt that failed
    input_file,             \* BuildingCorrector: the table pd.read_csv reads
    corrector_pc,           \* BuildingCorrector: where run stands
    corrector_df,           \* BuildingCorrector: self.df
    duplicate_postal_codes, \* BuildingCorrector: self.duplicate_postal_codes
    result_df               \* BuildingCorrector: self.result_df

vars == <<mainpc, i, postal_code, sem, permit, tasks, pc, attempt, result, page, records,
          errlog, probeLog, pageLog, df, csv, faults, submitted, sinkFaults, sinkLost,
          input_file, corrector_pc, corrector_df, duplicate_postal_codes, result_df>>

\* the state of OnemapDownloader and that of BuildingCorrector
downloaderVars == <<mainpc, i, postal_code, sem, permit, tasks, pc, attempt, result, page,
                    records, errlog, probeLog, pageLog, df, csv, faults, submitted,
                    sinkFaults, sinkLost>>
correctorVars == <<input_file, corrector_pc, corrector_df, duplicate_postal_codes, result_df>>

mainVars == <<mainpc, i, postal_code, sem, permit, tasks, df, csv, submitted>>
taskVars == <<attempt, result, page, records, errlog, probeLog, pageLog, faults,
              sinkFaults, sinkLost>>

\* the output file before to_csv has written it: no table, whose rows have
\* three fields, equals it
NoFile == << <<>> >>

\* no BuildingCorrector has been constructed
NoCorrector ==
    /\ input_file = <<>>
    /\ corrector_pc = "none"
    /\ corrector_df = <<>>
    /\ duplicate_postal_codes = <<>>
    /\ result_df = <<>>

\* the state after OnemapDownloader(...), with n writes of the error log to fail
NewDownloader(n) ==
    /\ mainpc = "loop"
    /\ i = 0
    /\ postal_code = postal_codes(0)
    /\ sem = SemPermits
    /\ permit = {}
    /\ tasks = <<>>
    /\ pc = [k \in Keys |-> "none"]
    /\ attempt = [k \in Keys |-> 0]
    /\ result = [k \in Keys |-> None]
    /\ page = [k \in Keys |-> 0]
    /\ records = [k \in Keys |-> <<>>]
    /\ errlog = [k \in Keys |-> <<>>]
    /\ probeLog = [k \in Keys |-> <<>>]
    /\ pageLog = [k \in Keys |-> <<>>]
    /\ df = <<>>
    /\ csv = NoFile
    /\ faults = 0
    /\ submitted = [k \in Keys |-> 0]
    /\ sinkFaults = n
    /\ sinkLost = [k \in Keys |-> 0]

InitWith(n) == NoCorrector /\ NewDownloader(n)

\* every write of the error log succeeds
Init == InitWith(0)

\* up to MaxSinkFaults writes of the error log fail
InitSink == InitWith(MaxSinkFaults)

(* ------------------------------------------------------------------ *)
(* fetch_postal: the first-page request, with retries.                 *)
(* ------------------------------------------------------------------ *)
\* a loop that runs one pass too many
attempt_in_range_extra(a) == a < Retries + 1

\* `for attempt in range(retries)`: is there a pass with this value of attempt?
attempt_in_range(a) == a < Retries

\* the comparison off by one upwards: the last timeout is taken for a retry
retry_on_timeout_late(a) == a < Retries

\* the comparison off by one downwards: the timeout before the last gives up
retry_on_timeout_early(a) == a < Retries - 2

\* `if attempt < retries - 1: continue`
retry_on_timeout(a) == a < Retries - 1

\* the loop body without the `break` after a non-200 status
fetch_attempt_no_break(a, r) ==
    CASE r.kind = "ok" -> [ctl |-> "return", errors |-> <<>>]
      [] r.kind = "http" -> [ctl |-> "continue", errors |-> <<HttpError(r.status)>>]
      [] r.kind = "timeout" ->
            IF retry_on_timeout(a)
            THEN [ctl |-> "continue", errors |-> <<>>]
            ELSE [ctl |-> "continue", errors |-> <<TimeoutAfterRetries>>]
      [] r.kind = "error" -> [ctl |-> "break", errors |-> <<ExceptionText(r.text)>>]

\* the loop body with the log_error of the non-200 branch left out
fetch_attempt_http_unlogged(a, r) ==
    CASE r.kind = "ok" -> [ctl |-> "return", errors |-> <<>>]
      [] r.kind = "http" -> [ctl |-> "break", errors |-> <<>>]
      [] r.kind = "timeout" ->
            IF retry_on_timeout(a)
            THEN [ctl |-> "continue", errors |-> <<>>]
            ELSE [ctl |-> "continue", errors |-> <<TimeoutAfterRetries>>]
      [] r.kind = "error" -> [ctl |-> "break", errors |-> <<ExceptionText(r.text)>>]

\* the loop body logging every timeout, not only the last
fetch_attempt_log_each_timeout(a, r) ==
    CASE r.kind = "ok" -> [ctl |-> "return", errors |-> <<>>]
      [] r.kind = "http" -> [ctl |-> "break", errors |-> <<HttpError(r.status)>>]
      [] r.kind = "timeout" -> [ctl |-> "continue", errors |-> <<TimeoutAfterRetries>>]
      [] r.kind = "error" -> [ctl |-> "break", errors |-> <<ExceptionText(r.text)>>]

\* One pass of the loop body on the answer r to the request of pass a: the lines
\* it logs and how it leaves the pass.  "return" returns the decoded answer,
\* "break" leaves the loop, "continue" goes on to the next pass, if there is one.
fetch_attempt(a, r) ==
    CASE r.kind = "ok" -> [ctl |-> "return", errors |-> <<>>]
      [] r.kind = "http" -> [ctl |-> "break", errors |-> <<HttpError(r.status)>>]
      [] r.kind = "timeout" ->
            IF retry_on_timeout(a)
            THEN [ctl |-> "continue", errors |-> <<>>]
            ELSE [ctl |-> "continue", errors |-> <<TimeoutAfterRetries>>]
      [] r.kind = "error" -> [ctl |-> "break", errors |-> <<ExceptionText(r.text)>>]

\* the log_error call of the non-200 branch stands inside the `try`; those of the
\* handlers do not
logged_in_try(r) == r.kind = "http"

\* What open() or write() of log_error raises when it fails: an OSError, which is a
\* TimeoutError (errno ETIMEDOUT) or another one.  asyncio.TimeoutError is
\* TimeoutError, so `except asyncio.TimeoutError` catches the first kind.
OSErrors == {"TimeoutError", "FileNotFoundError"}

\* the kinds of error the first of f failing writes can be
Raisable(f) == IF f = 0 THEN {"none"} ELSE OSErrors

\* the lines the handler of asyncio.TimeoutError writes in pass a
timeout_handler(a) == fetch_attempt(a, Timeout).errors

\* the writes one step of pass a can lose: log_error in the `try` is followed, when
\* it raises e, by the log_error of the handler that catches e
max_writes(in_try, a, errors, e) ==
    IF errors = <<>> THEN 0
    ELSE IF ~in_try THEN 1
    ELSE IF e = "TimeoutError" THEN 1 + Len(timeout_handler(a))
    ELSE 2

\* log_error has no handler of its own.  What one step of pass a leaves in the log
\* when its first f writes fail, the first with e; whether the OSError leaves the
\* coroutine; and whether the pass ends as a timed-out one.  Raised in the `try`,
\* a TimeoutError is taken for a timeout of the request (retried without a line,
\* or "Timeout after retries" in the last pass) and any other OSError is caught by
\* `except Exception` and logged in place of the line; raised in a handler, it is
\* caught nowhere.
sink_write(in_try, a, errors, f, e) ==
    IF errors = <<>> \/ f = 0 THEN [lines |-> errors, raised |-> FALSE, timed_out |-> FALSE]
    ELSE IF ~in_try THEN [lines |-> <<>>, raised |-> TRUE, timed_out |-> FALSE]
    ELSE IF e = "TimeoutError"
    THEN IF f = 1 THEN [lines |-> timeout_handler(a), raised |-> FALSE, timed_out |-> TRUE]
         ELSE [lines |-> <<>>, raised |-> TRUE, timed_out |-> FALSE]
    ELSE IF f = 1 THEN [lines |-> <<OSErrorText>>, raised |-> FALSE, timed_out |-> FALSE]
    ELSE [lines |-> <<>>, raised |-> TRUE, timed_out |-> FALSE]

(* ------------------------------------------------------------------ *)
(* process_postal: the pages of one postal code.                       *)
(* ------------------------------------------------------------------ *)
\* the test left out: the page loop entered with whatever fetch_postal returned
has_pages_unchecked(res) == res.totalNumPages > 0

\* the test of `found` left out: `if result:`
has_pages_any(res) == res.kind = "ok"

\* `if result and result.get('found', 0) > 0`
has_pages(res) == res.kind = "ok" /\ res.found > 0

\* `range(1, result['totalNumPages'])`: the last page left out
page_in_range_exclusive(p, res) == p >= 1 /\ p < res.totalNumPages

\* `for page in range(1, result['totalNumPages'] + 1)`
page_in_range(p, res) == p >= 1 /\ p < res.totalNumPages + 1

\* the rows one page adds to `records`: one per item of a page that answered 200
page_records(k, p, r) ==
    IF r.kind = "ok" /\ r.status = HTTP_OK
    THEN [j \in 1 .. r.items |-> <<k, p, j>>]
    ELSE <<>>

\* a page timeout swallowed without a log line
page_errors_unlogged(p, r) == <<>>

\* `except asyncio.TimeoutError: self.log_error(postal_code, f"Page {page} timeout")`
page_errors(p, r) == IF r.kind = "timeout" THEN <<PageTimeout(p)>> ELSE <<>>

\* any other exception of a page request is caught nowhere in process_postal
page_raises(r) == r.kind = "error"

(* ------------------------------------------------------------------ *)
(* download_data and run.                                              *)
(* ------------------------------------------------------------------ *)
\* `if i % 1000 == 0 and i > 0`
flush_due(n) == n % BatchSize = 0 /\ n > 0

\* a `tasks.clear()` that is missing
clear_forgotten(ts) == ts

\* `tasks.clear()`
clear(ts) == <<>>

\* the final gather left out
final_gather_skipped(ts) == FALSE

\* `if tasks:` after the loop
final_gather_needed(ts) == ts # <<>>

\* a semaphore that is never released
release_forgotten(v) == v

\* leaving `async with sem` releases the permit
release(v) == v + 1

Awaiting == mainpc \in {"gather", "final"}
InBatch(k) == \E n \in 1 .. Len(tasks) : tasks[n] = k
Started(k) == pc[k] \notin {"none", "created"}
InFlight(k) == pc[k] \in {"probe", "page"}

\* the gather not awaited: the loop goes on at once
gather_not_awaited(ts) == TRUE

\* gather returning as soon as one coroutine has returned
gather_done_first(ts) == \E n \in 1 .. Len(ts) : pc[ts[n]] = "done"

\* `await asyncio.gather(*tasks)` returns when every coroutine has returned
gather_done(ts) == \A n \in 1 .. Len(ts) : pc[ts[n]] = "done"

\* gather wraps each coroutine of ts in a task
Submit(ts) == [k \in Keys |-> submitted[k] + Cardinality({n \in 1 .. Len(ts) : ts[n] = k})]

RECURSIVE ConcatOverwrite(_, _)
\* `self.df = pd.DataFrame(batch)`: the table replaced, not extended
ConcatOverwrite(table, ts) ==
    IF ts = <<>> THEN table
    ELSE ConcatOverwrite(IF records[Head(ts)] # <<>> THEN records[Head(ts)] ELSE table,
                         Tail(ts))

RECURSIVE ConcatDropLast(_, _)
\* `for batch in completed[:-1]`: the last result of a gather left out
ConcatDropLast(table, ts) ==
    IF Len(ts) <= 1 THEN table
    ELSE ConcatDropLast(IF records[Head(ts)] # <<>> THEN table \o records[Head(ts)] ELSE table,
                        Tail(ts))

RECURSIVE ConcatPrepend(_, _)
\* `pd.concat([pd.DataFrame(batch), self.df])`: each result put in front
ConcatPrepend(table, ts) ==
    IF ts = <<>> THEN table
    ELSE ConcatPrepend(IF records[Head(ts)] # <<>> THEN records[Head(ts)] \o table ELSE table,
                       Tail(ts))

RECURSIVE Concat(_, _)
\* the results of gather, in the order of `tasks`, appended to the table
Concat(table, ts) ==
    IF ts = <<>> THEN table
    ELSE Concat(IF records[Head(ts)] # <<>> THEN table \o records[Head(ts)] ELSE table,
                Tail(ts))

\* `tasks.insert(0, ...)`: the coroutine put in front of the list
append_task_front(ts, k) == <<k>> \o ts

\* `tasks.append(self.process_postal(postal_code, session))`
append_task(ts, k) == Append(ts, k)

\* gather wraps the coroutines in tasks in the order of the list and the event
\* loop runs them in that order: k's turn comes when all before it have run up
\* to their first request
start_ready(ts, k) ==
    \A n \in 1 .. Len(ts) : ts[n] = k => \A m \in 1 .. n - 1 : Started(ts[m])

\* the end of one pass of `for i, postal_code in enumerate(postal_codes)`: the
\* next pair is bound, or the list is exhausted and i and postal_code keep the
\* values of the last pass
NextPass ==
    /\ i' = IF i + 1 < NumKeys THEN i + 1 ELSE i
    /\ postal_code' = IF i + 1 < NumKeys THEN postal_codes(i + 1) ELSE postal_code
    /\ mainpc' = IF i + 1 < NumKeys THEN "loop" ELSE "after"

\* `async with sem:` is entered for postal_codes[i]
Acquire ==
    /\ mainpc = "loop"
    /\ sem > 0
    /\ sem' = sem - 1
    /\ permit' = permit \cup {i}
    /\ mainpc' = "with"
    /\ UNCHANGED <<i, postal_code, tasks, pc, df, csv, submitted>>
    /\ UNCHANGED taskVars
    /\ UNCHANGED correctorVars

\* the coroutine is created and appended, the block is left, and the pass ends
\* or stops to await the batch
AppendTask ==
    /\ mainpc = "with"
    /\ tasks' = append_task(tasks, i)
    /\ pc' = [pc EXCEPT ![i] = "created"]
    /\ sem' = release(sem)
    /\ permit' = permit \ {i}
    /\ IF flush_due(i)
       THEN mainpc' = "gather" /\ UNCHANGED <<i, postal_code>> /\ submitted' = Submit(tasks')
       ELSE NextPass /\ UNCHANGED submitted
    /\ UNCHANGED <<df, csv>>
    /\ UNCHANGED taskVars
    /\ UNCHANGED correctorVars

\* `completed = await asyncio.gather(*tasks)` of a batch returns: every coroutine
\* of the batch has returned
GatherDone ==
    /\ mainpc = "gather"
    /\ gather_done(tasks)
    /\ df' = Concat(df, tasks)
    /\ tasks' = clear(tasks)
    /\ NextPass
    /\ UNCHANGED <<sem, permit, pc, csv, submitted>>
    /\ UNCHANGED taskVars
    /\ UNCHANGED correctorVars

\* `if tasks:` after the loop
AfterLoop ==
    /\ mainpc = "after"
    /\ IF final_gather_needed(tasks)
       THEN mainpc' = "final" /\ submitted' = Submit(tasks)
       ELSE mainpc' = "downloaded" /\ UNCHANGED submitted
    /\ UNCHANGED <<i, postal_code, sem, permit, tasks, pc, df, csv>>
    /\ UNCHANGED taskVars
    /\ UNCHANGED correctorVars

\* the gather of the remaining tasks returns
FinalDone ==
    /\ mainpc = "final"
    /\ gather_done(tasks)
    /\ df' = Concat(df, tasks)
    /\ mainpc' = "downloaded"
    /\ UNCHANGED <<i, postal_code, sem, permit, tasks, pc, csv, submitted>>
    /\ UNCHANGED taskVars
    /\ UNCHANGED correctorVars

\* gather raises the exception of a coroutine that raised: download_data and run
\* are left by the exception.  asyncio.run is the one nest_asyncio.apply() has
\* put in place, which cancels nothing: the other coroutines of the batch stay
\* where they are, their requests unanswered, and nothing runs any more
GatherRaise ==
    /\ Awaiting
    /\ \E n \in 1 .. Len(tasks) : pc[tasks[n]] = "raised"
    /\ mainpc' = "aborted"
    /\ UNCHANGED <<i, postal_code, sem, permit, tasks, pc, df, csv, submitted>>
    /\ UNCHANGED taskVars
    /\ UNCHANGED correctorVars

\* run: save_data after download_data has returned
SaveData ==
    /\ mainpc = "downloaded"
    /\ csv' = df
    /\ mainpc' = "returned"
    /\ UNCHANGED <<i, postal_code, sem, permit, tasks, pc, df, submitted>>
    /\ UNCHANGED taskVars
    /\ UNCHANGED correctorVars

(* ------------------------------------------------------------------ *)
(* The coroutines of a batch.                                          *)
(* ------------------------------------------------------------------ *)
\* gather starts the coroutines in the order of `tasks`; each runs up to its first
\* request
Start(k) ==
    /\ Awaiting
    /\ InBatch(k)
    /\ pc[k] = "created"
    /\ start_ready(tasks, k)
    /\ pc' = [pc EXCEPT ![k] = "probe"]
    /\ attempt' = [attempt EXCEPT ![k] = 0]
    /\ UNCHANGED <<result, page, records, errlog, probeLog, pageLog, faults,
                    sinkFaults, sinkLost>>
    /\ UNCHANGED mainVars
    /\ UNCHANGED correctorVars

\* no answer arrives before every coroutine of the batch has issued its first request
AllStarted == \A n \in 1 .. Len(tasks) : Started(tasks[n])

Budget(r) ==
    /\ r \in Failures => faults < MaxFaults
    /\ faults' = IF r \in Failures THEN faults + 1 ELSE faults

\* f writes of the error log fail for k
SinkFails(k, f) ==
    /\ f <= sinkFaults
    /\ sinkFaults' = sinkFaults - f
    /\ sinkLost' = [sinkLost EXCEPT ![k] = @ + f]

\* the answer r to the first-page request of k arrives; the first f writes of the
\* error log the step makes fail, the first of them with e
ProbeResponse(k, r, f, e) ==
    /\ Awaiting /\ AllStarted
    /\ pc[k] = "probe"
    /\ Budget(r)
    /\ LET o == fetch_attempt(attempt[k], r)
           w == sink_write(logged_in_try(r), attempt[k], o.errors, f, e)
           ctl == IF w.timed_out THEN "continue" ELSE o.ctl
           again == ctl = "continue" /\ attempt_in_range(attempt[k] + 1)
           res == IF ctl = "return" THEN r ELSE None
       IN  /\ f <= max_writes(logged_in_try(r), attempt[k], o.errors, e)
           /\ SinkFails(k, f)
           /\ probeLog' = [probeLog EXCEPT ![k] = Append(@, r)]
           /\ errlog' = [errlog EXCEPT ![k] = log_errors(@, w.lines)]
           /\ IF w.raised
              THEN /\ pc' = [pc EXCEPT ![k] = "raised"]
                   /\ UNCHANGED <<attempt, result, page>>
              ELSE IF again
              THEN /\ attempt' = [attempt EXCEPT ![k] = @ + 1]
                   /\ UNCHANGED <<pc, result, page>>
              ELSE /\ result' = [result EXCEPT ![k] = res]
                   /\ IF has_pages(res) /\ page_in_range(1, res)
                      THEN /\ pc' = [pc EXCEPT ![k] = "page"]
                           /\ page' = [page EXCEPT ![k] = 1]
                      ELSE /\ pc' = [pc EXCEPT ![k] = "done"]
                           /\ UNCHANGED page
                   /\ UNCHANGED attempt
    /\ UNCHANGED <<records, pageLog>>
    /\ UNCHANGED mainVars
    /\ UNCHANGED correctorVars

\* the answer r to the request of page page[k] of k arrives; the first f writes of
\* the error log the step makes fail, the first of them with e
PageResponse(k, r, f, e) ==
    /\ Awaiting /\ AllStarted
    /\ pc[k] = "page"
    /\ Budget(r)
    /\ LET w == sink_write(FALSE, 0, page_errors(page[k], r), f, e)
       IN  /\ f <= max_writes(FALSE, 0, page_errors(page[k], r), e)
           /\ SinkFails(k, f)
           /\ pageLog' = [pageLog EXCEPT ![k] = Append(@, <<page[k], r>>)]
           /\ IF page_raises(r) \/ w.raised
              THEN /\ pc' = [pc EXCEPT ![k] = "raised"]
                   /\ UNCHANGED <<records, errlog, page>>
              ELSE /\ records' = [records EXCEPT ![k] = @ \o page_records(k, page[k], r)]
                   /\ errlog' = [errlog EXCEPT ![k] = log_errors(@, w.lines)]
                   /\ IF page_in_range(page[k] + 1, result[k])
                      THEN /\ page' = [page EXCEPT ![k] = @ + 1]
                           /\ UNCHANGED pc
                      ELSE /\ pc' = [pc EXCEPT ![k] = "done"]
                           /\ UNCHANGED page
    /\ UNCHANGED <<attempt, result, probeLog>>
    /\ UNCHANGED mainVars
    /\ UNCHANGED correctorVars

Next ==
    \/ Acquire
    \/ AppendTask
    \/ GatherDone
    \/ AfterLoop
    \/ FinalDone
    \/ GatherRaise
    \/ SaveData
    \/ \E k \in Keys : Start(k)
    \/ \E k \in Keys, f \in 0 .. 2 : \E r \in ProbeResponses(k), e \in Raisable(f) : ProbeResponse(k, r, f, e)
    \/ \E k \in Keys, f \in 0 .. 1 : \E r \in PageResponses(k, page[k]), e \in Raisable(f) : PageResponse(k, r, f, e)

\* a run whose error log can always be written
Spec == Init /\ [][Next]_vars

\* a run whose error log can fail to be written
SinkSpec == InitSink /\ [][Next]_vars

\* the event loop runs whatever is ready, and every request is answered
LiveSpec == Init /\ [][Next]_vars /\ WF_vars(Next)

(* ------------------------------------------------------------------ *)
(* BuildingCorrector (src/scripts/onemap_building_correct.py):         *)
(* load_data and deduplicate.  A row of the table is a record of the   *)
(* columns the two methods read.  A blk_no cell of self.df is the       *)
(* sequence of the characters of str(blk_no), or NaN; a blk_no cell of *)
(* the file is its text together with what the tokenizer of            *)
(* pd.read_csv takes the text for.  A character is a string: itself,   *)
(* or the code point ("U+000B") of one that cannot be written.  name   *)
(* is kept as what the patterns of is_parent_building_name find in it; *)
(* street as its length; lat and lon as whether the cell has a value.  *)
(* ------------------------------------------------------------------ *)
DigitChars == <<"0", "1", "2", "3", "4", "5", "6", "7", "8", "9">>
IsDigit(c) == \E d \in 1 .. 10 : DigitChars[d] = c
\* [A-Za-z]
Letters ==
    {"A", "B", "C", "D", "E", "F", "G", "H", "I", "J", "K", "L", "M",
     "N", "O", "P", "Q", "R", "S", "T", "U", "V", "W", "X", "Y", "Z",
     "a", "b", "c", "d", "e", "f", "g", "h", "i", "j", "k", "l", "m",
     "n", "o", "p", "q", "r", "s", "t", "u", "v", "w", "x", "y", "z"}
IsAlpha(c) == c \in Letters
\* the characters str.strip() removes: those for which str.isspace() holds
Whitespace ==
    {" ", "\t", "\n", "\r", "\f", "U+000B", "U+001C", "U+001D", "U+001E", "U+001F",
     "U+0085", "U+00A0", "U+1680", "U+2000", "U+2001", "U+2002", "U+2003", "U+2004",
     "U+2005", "U+2006", "U+2007", "U+2008", "U+2009", "U+200A", "U+2028", "U+2029",
     "U+202F", "U+205F", "U+3000"}
IsSpace(c) == c \in Whitespace
DigitValue(c) == (CHOOSE d \in 1 .. 10 : DigitChars[d] = c) - 1

\* an empty cell of the file: NaN in self.df
NaN == <<>>

RECURSIVE strip(_)
\* `.strip()`: the blanks at both ends removed
strip(str) ==
    IF str = <<>> THEN str
    ELSE IF IsSpace(Head(str)) THEN strip(Tail(str))
    ELSE IF IsSpace(str[Len(str)]) THEN strip(SubSeq(str, 1, Len(str) - 1))
    ELSE str

\* re.match(r'^[0-9]+$', str)
all_digits(str) == str # <<>> /\ \A j \in 1 .. Len(str) : IsDigit(str[j])

RECURSIVE int(_)
\* int(blk_str) of a string of digits
int(str) == IF str = <<>> THEN 0 ELSE 10 * int(SubSeq(str, 1, Len(str) - 1)) + DigitValue(str[Len(str)])

\* re.search of self.non_parent_blk_patterns: [0-9]+-[0-9]+, [0-9]+[A-Za-z]+,
\* [A-Za-z]+[0-9]+
non_parent_blk(str) ==
    \/ \E j \in 1 .. Len(str) - 2 : IsDigit(str[j]) /\ str[j + 1] = "-" /\ IsDigit(str[j + 2])
    \/ \E j \in 1 .. Len(str) - 1 : IsDigit(str[j]) /\ IsAlpha(str[j + 1])
    \/ \E j \in 1 .. Len(str) - 1 : IsAlpha(str[j]) /\ IsDigit(str[j + 1])

\* is_parent_building_blk: the pair (is_parent, score)
is_parent_building_blk(blk_no) ==
    IF blk_no = NaN THEN <<FALSE, 0>>
    ELSE LET blk_str == strip(blk_no)
         IN  IF non_parent_blk(blk_str) THEN <<FALSE, 0>>
             ELSE IF all_digits(blk_str)
             THEN (IF int(blk_str) < 10 THEN <<TRUE, 3>>
                   ELSE IF int(blk_str) < 100 THEN <<TRUE, 2>>
                   ELSE <<TRUE, 1>>)
             ELSE <<FALSE, 0>>

\* the names: none, one a non-parent pattern matches, one without any keyword,
\* and ones in which one or two of the parent_building_keywords patterns match
NoName == [empty |-> TRUE, non_parent |-> FALSE, keywords |-> 0]
Name(np, kw) == [empty |-> FALSE, non_parent |-> np, keywords |-> kw]

\* is_parent_building_name: the pair (is_parent, score)
is_parent_building_name(name) ==
    IF name.empty THEN <<FALSE, 0>>
    ELSE IF name.non_parent THEN <<FALSE, 0>>
    ELSE IF name.keywords > 0 THEN <<TRUE, name.keywords>>
    ELSE <<FALSE, 0>>

\* calculate_parent_building_score
calculate_parent_building_score(row) ==
    LET blk == is_parent_building_blk(row.blk_no)
        nam == is_parent_building_name(row.name)
        complete == (IF row.street > 0 THEN 1 ELSE 0) + (IF ~row.name.empty THEN 1 ELSE 0)
                    + (IF row.lat THEN 1 ELSE 0) + (IF row.lon THEN 1 ELSE 0)
        short == IF row.street = 0 THEN 0
                 ELSE IF row.street < 20 THEN 2
                 ELSE IF row.street < 30 THEN 1 ELSE 0
    IN  (IF blk[1] THEN blk[2] * 5 ELSE 0) + (IF nam[1] THEN nam[2] * 3 ELSE 0)
        + complete + short

\* A blk_no cell of the file, by what the tokenizer of pd.read_csv takes its text
\* for.  A missing value: the empty cell and the tokens of na_values ("NA", ...).
Missing(text) == [text |-> text, parsed |-> "na", number |-> 0, repr |-> <<>>]
\* An integer (blanks and a sign allowed around the digits): v is its value and r
\* str() of the float64 its text parses to.
Integer(text, v, r) == [text |-> text, parsed |-> "int", number |-> v, repr |-> r]
\* Another number (a decimal, an exponent, inf): r is str() of the float64.
Decimal(text, r) == [text |-> text, parsed |-> "float", number |-> 0, repr |-> r]
\* One of true_values (b = 1) or false_values (b = 0).
Boolean(text, b) == [text |-> text, parsed |-> "bool", number |-> b, repr |-> <<>>]
\* Anything else.
Text(text) == [text |-> text, parsed |-> "text", number |-> 0, repr |-> <<>>]

\* the rows the file is made of: one of each way through the scoring, with each
\* of the first NumCodes postal codes, as the integers pd.read_csv makes of them
RowKinds ==
    { [blk_no |-> Integer(<<" ", "7", " ">>, 7, <<"7", ".", "0">>),
       name |-> Name(FALSE, 1), street |-> 10, lat |-> TRUE, lon |-> TRUE],
      [blk_no |-> Text(<<"1", "2", "A">>),
       name |-> Name(TRUE, 0), street |-> 25, lat |-> TRUE, lon |-> TRUE],
      [blk_no |-> Integer(<<"1", "2", "3">>, 123, <<"1", "2", "3", ".", "0">>),
       name |-> NoName, street |-> 40, lat |-> TRUE, lon |-> TRUE],
      [blk_no |-> Missing(<<>>),
       name |-> Name(FALSE, 2), street |-> 0, lat |-> TRUE, lon |-> FALSE],
      [blk_no |-> Integer(<<"4", "5">>, 45, <<"4", "5", ".", "0">>),
       name |-> Name(FALSE, 0), street |-> 10, lat |-> TRUE, lon |-> TRUE] }
Codes == {FirstCode + n : n \in 0 .. NumCodes - 1}
Row(code, kind) ==
    [postal_code |-> code, blk_no |-> kind.blk_no, name |-> kind.name,
     street |-> kind.street, lat |-> kind.lat, lon |-> kind.lon]
InputRows == {Row(code, kind) : code \in Codes, kind \in RowKinds}
InputTables == UNION {[1 .. n -> InputRows] : n \in 1 .. MaxRows}

\* `.astype(str)` of an integer
astype_str(v) == Digits(v)

\* str() of an integer, as characters
str_int(v) ==
    IF v < 0 THEN <<"-">> \o [j \in 1 .. Len(Digits(-v)) |-> DigitChars[Digits(-v)[j] + 1]]
    ELSE [j \in 1 .. Len(Digits(v)) |-> DigitChars[Digits(v)[j] + 1]]

\* str() of the float64 an int64 is cast to: "45.0"
str_float(v) == str_int(v) \o <<".", "0">>

\* str() of a bool
str_bool(b) == IF b = 1 THEN <<"T", "r", "u", "e">> ELSE <<"F", "a", "l", "s", "e">>

\* what the cells of a column that are not missing are taken for
parsed_as(cells) == {cells[n].parsed : n \in {n \in 1 .. Len(cells) : cells[n].parsed # "na"}}

\* The type pd.read_csv infers for a column, trying int64, float64, bool and object
\* in this order: the integers are int64, or float64 to hold a missing value; a
\* decimal among numbers makes them all float64; true/false tokens are bool, or
\* objects to hold a missing value; anything else leaves the column its texts.
dtype(cells) ==
    LET missing == \E n \in 1 .. Len(cells) : cells[n].parsed = "na"
    IN  IF parsed_as(cells) \subseteq {"int"} THEN (IF missing THEN "float64" ELSE "int64")
        ELSE IF parsed_as(cells) \subseteq {"int", "float"} THEN "float64"
        ELSE IF parsed_as(cells) = {"bool"} /\ ~missing THEN "bool"
        ELSE "object"

\* the cells of a column as pd.read_csv returns them, each as str() shows it
read_column(cells) ==
    LET inferred == dtype(cells)
        whole == parsed_as(cells) \subseteq {"int"}
        bools == parsed_as(cells) = {"bool"}
    IN  [n \in 1 .. Len(cells) |->
            IF cells[n].parsed = "na" THEN NaN
            ELSE IF inferred = "int64" THEN str_int(cells[n].number)
            ELSE IF inferred = "float64"
            THEN (IF whole THEN str_float(cells[n].number) ELSE cells[n].repr)
            ELSE IF bools THEN str_bool(cells[n].number)
            ELSE cells[n].text]

\* self.df after `pd.read_csv(self.input_file)` and the astype(str) of postal_code
read_csv(file) ==
    LET blk_no == read_column([n \in 1 .. Len(file) |-> file[n].blk_no])
    IN  [n \in 1 .. Len(file) |->
            [file[n] EXCEPT !.postal_code = astype_str(@), !.blk_no = blk_no[n]]]

\* `self.df['postal_code'].duplicated(keep=False)`, row n
duplicated(table, n) ==
    \E m \in 1 .. Len(table) : m # n /\ table[m].postal_code = table[n].postal_code

RECURSIVE unique(_)
\* `.unique()`: the values in the order of their first appearance
unique(values) ==
    IF values = <<>> THEN <<>>
    ELSE LET rest == unique(SubSeq(values, 1, Len(values) - 1))
             last == values[Len(values)]
         IN  IF \E n \in 1 .. Len(rest) : rest[n] = last THEN rest ELSE Append(rest, last)

RECURSIVE Where(_, _, _)
\* the rows table[n], n <= upto, for which mask[n] holds, in their order
Where(table, mask, upto) ==
    IF upto = 0 THEN <<>>
    ELSE Where(table, mask, upto - 1) \o (IF mask[upto] THEN <<table[upto]>> ELSE <<>>)

\* `.isin(self.duplicate_postal_codes)`
isin(value, values) == \E n \in 1 .. Len(values) : values[n] = value

\* `sort_values('parent_score', ascending=True)`: the lowest score first
first_of_sorted_ascending(group) ==
    {group[n] : n \in {n \in 1 .. Len(group) : \A m \in 1 .. Len(group) :
        calculate_parent_building_score(group[m]) >= calculate_parent_building_score(group[n])}}

\* `group.sort_values('parent_score', ascending=False).iloc[0]`: a row of the
\* highest score; the default sort is not stable, so among equal scores it can be
\* any
first_of_sorted(group) ==
    LET parent_score == [n \in 1 .. Len(group) |-> calculate_parent_building_score(group[n])]
    IN  {group[n] : n \in {n \in 1 .. Len(group) : \A m \in 1 .. Len(group) :
            parent_score[m] <= parent_score[n]}}

\* `df_with_scores[df_with_scores['postal_code'] == postal_code]`
group_of(table, code) ==
    Where(table, [n \in 1 .. Len(table) |-> table[n].postal_code = code], Len(table))

\* BuildingCorrector(input_file, output_file) on a table of the input file
CorrectorInit ==
    /\ NewDownloader(0)
    /\ input_file \in InputTables
    /\ corrector_pc = "new"
    /\ corrector_df = <<>>
    /\ duplicate_postal_codes = <<>>
    /\ result_df = <<>>

\* load_data
LoadData ==
    /\ corrector_pc = "new"
    /\ LET table == read_csv(input_file)
           duplicates == [n \in 1 .. Len(table) |-> duplicated(table, n)]
           duplicate_rows == Where(table, duplicates, Len(table))
       IN  /\ corrector_df' = table
           /\ duplicate_postal_codes' =
                 unique([n \in 1 .. Len(duplicate_rows) |-> duplicate_rows[n].postal_code])
    /\ corrector_pc' = "loaded"
    /\ UNCHANGED <<input_file, result_df>>
    /\ UNCHANGED downloaderVars

\* load_data when pd.read_csv raises: it returns False and run stops
LoadFails ==
    /\ corrector_pc = "new"
    /\ corrector_pc' = "failed"
    /\ UNCHANGED <<input_file, corrector_df, duplicate_postal_codes, result_df>>
    /\ UNCHANGED downloaderVars

\* deduplicate
Deduplicate ==
    /\ corrector_pc = "loaded"
    /\ LET non_duplicates == [n \in 1 .. Len(corrector_df) |->
                                 ~isin(corrector_df[n].postal_code, duplicate_postal_codes)]
           groups == [g \in 1 .. Len(duplicate_postal_codes) |->
                         group_of(corrector_df, duplicate_postal_codes[g])]
           first_rows == [g \in 1 .. Len(groups) |-> first_of_sorted(groups[g])]
       IN  \E selected \in [1 .. Len(groups) -> {corrector_df[n] : n \in 1 .. Len(corrector_df)}] :
              /\ \A g \in 1 .. Len(groups) : selected[g] \in first_rows[g]
              /\ result_df' = Where(corrector_df, non_duplicates, Len(corrector_df)) \o selected
    /\ corrector_pc' = "deduplicated"
    /\ UNCHANGED <<input_file, corrector_df, duplicate_postal_codes>>
    /\ UNCHANGED downloaderVars

CorrectorNext ==
    \/ LoadData
    \/ LoadFails
    \/ Deduplicate

\* BuildingCorrector.run up to the end of deduplicate
CorrectorSpec == CorrectorInit /\ [][CorrectorNext]_vars

(* ------------------------------------------------------------------ *)
(* Vocabulary of the properties.                                       *)
(* ------------------------------------------------------------------ *)
\* the lines fetch_postal writes are about the postal code, the others about a page
KeyLevel(e) == e.msg \in {"HTTP", "Timeout after retries", "exception"}
KeyErrors(k) == SelectSeq(errlog[k], KeyLevel)
Resolved(k) == pc[k] = "done"
Ended == mainpc \in {"downloaded", "returned"}
AllTimeouts(log, n) == \A m \in 1 .. n : log[m].kind = "timeout"
Logged(k, e) == \E n \in 1 .. Len(errlog[k]) : errlog[k][n] = e

RECURSIVE RowsOf(_, _)
\* the rows of the pages of k that answered 200, in the order of the requests
RowsOf(k, plog) ==
    IF plog = <<>> THEN <<>>
    ELSE LET p == Head(plog)[1]
             r == Head(plog)[2]
         IN  (IF r.kind = "ok" THEN [j \in 1 .. r.items |-> <<k, p, j>>] ELSE <<>>)
             \o RowsOf(k, Tail(plog))

(* C1: at most SemPermits (N) process_postal operations are in progress, *)
(* started and not yet at their terminal outcome, at any time.           *)
C1_AtMostNInProgress ==
    Cardinality({k \in Keys : InFlight(k)}) <= SemPermits

(* C2: an operation in progress holds a permit of the semaphore: the     *)
(* permit is acquired before its first request and released only at its  *)
(* terminal outcome.                                                     *)
C2_PermitHeldWhileInProgress ==
    \A k \in Keys : InFlight(k) => k \in permit /\ sem < SemPermits

(* C3, as claimed: when the run ends every postal code is either a       *)
(* success (no error line) or a failure (no rows, exactly one error      *)
(* line); none has both rows and an error line or more than one line.    *)
C3_NoKeyWithRowsAndErrors ==
    Ended => \A k \in Keys :
        /\ Resolved(k)
        /\ \/ errlog[k] = <<>>
           \/ records[k] = <<>> /\ Len(errlog[k]) = 1

(* C3, amended: every resolved postal code, and so every postal code     *)
(* when download_data returns, is either a success of its first-page     *)
(* request (no line of fetch_postal; lines about timed-out pages may     *)
(* accompany its rows) or a permanent failure (no rows, exactly one      *)
(* error line, written by fetch_postal).                                 *)
C3_TerminalStates ==
    /\ Ended => \A k \in Keys : Resolved(k)
    /\ \A k \in Keys : Resolved(k) =>
        \/ KeyErrors(k) = <<>> /\ result[k] # None
        \/ /\ records[k] = <<>> /\ result[k] = None
           /\ Len(errlog[k]) = 1 /\ KeyLevel(errlog[k][1])

C3_Witness ==
    /\ Ended
    /\ \E k \in Keys : records[k] # <<>> /\ errlog[k] # <<>>
    /\ \E k \in Keys : result[k] = None /\ Len(errlog[k]) = 1

(* C4: no permanent failure of a first-page or page request aborts the   *)
(* run: download_data is never left by an exception.                     *)
C4_FailureNeverAborts ==
    /\ mainpc # "aborted"
    /\ \A k \in Keys : pc[k] # "raised"

(* C5: when the run ends, the error log has a line for every postal code *)
(* whose first-page request failed permanently and for every page        *)
(* request that did not deliver its rows.                                *)
C5_EveryFailureLogged ==
    Ended => \A k \in Keys :
        /\ result[k] = None => KeyErrors(k) # <<>>
        /\ \A n \in 1 .. Len(pageLog[k]) :
              pageLog[k][n][2].kind # "ok" =>
                  \E m \in 1 .. Len(errlog[k]) :
                      ~KeyLevel(errlog[k][m]) /\ errlog[k][m].arg = pageLog[k][n][1]

(* C6: fetch_postal issues at most Retries (R) requests for the first    *)
(* page of a postal code.                                                *)
C6_AtMostRAttempts ==
    \A k \in Keys :
        Len(probeLog[k]) + (IF pc[k] = "probe" THEN 1 ELSE 0) <= Retries

C6_Witness ==
    \E k \in Keys : Len(probeLog[k]) = Retries - 1 /\ pc[k] = "probe"

(* C7: only a timeout is followed by another attempt.  A non-200 status  *)
(* or a non-timeout error of any attempt resolves the postal code at     *)
(* once as a permanent failure, with the single error line naming the    *)
(* status or the error text, and is the last request for it.             *)
C7_NoRetryAfterNonTimeout ==
    \A k \in Keys : \A n \in 1 .. Len(probeLog[k]) :
        LET r == probeLog[k][n]
        IN  /\ (n < Len(probeLog[k]) \/ pc[k] = "probe") => r.kind = "timeout"
            /\ r.kind \in {"http", "error"} =>
                /\ n = Len(probeLog[k])
                /\ Resolved(k)
                /\ result[k] = None
                /\ errlog[k] = << IF r.kind = "http" THEN HttpError(r.status)
                                  ELSE ExceptionText(r.text) >>
                /\ records[k] = <<>>
                /\ pageLog[k] = <<>>

C7_Witness ==
    /\ \E k \in Keys : probeLog[k] = <<Http(500)>> /\ Resolved(k)
    /\ \E k \in Keys : Len(probeLog[k]) = 2 /\ probeLog[k][2].kind = "error"

(* C8: when all Retries attempts time out, the postal code resolves as a *)
(* permanent failure after exactly Retries attempts, with exactly one    *)
(* error line, "Timeout after retries", and no rows.                     *)
C8_TimeoutAfterRetries ==
    \A k \in Keys :
        Len(probeLog[k]) >= Retries /\ AllTimeouts(probeLog[k], Retries) =>
            /\ Len(probeLog[k]) = Retries
            /\ Resolved(k)
            /\ result[k] = None
            /\ errlog[k] = <<TimeoutAfterRetries>>
            /\ records[k] = <<>>
            /\ pageLog[k] = <<>>

C8_Witness ==
    \E k \in Keys : probeLog[k] = <<Timeout, Timeout, Timeout>> /\ Ended

(* C9: when attempts 1..j-1 time out and attempt j answers 200, the      *)
(* first-page request has succeeded after exactly j attempts: no further *)
(* attempt is made and no error line is written for the timeouts.        *)
C9_SuccessAfterTimeouts ==
    \A k \in Keys : \A j \in 1 .. Len(probeLog[k]) :
        probeLog[k][j].kind = "ok" /\ AllTimeouts(probeLog[k], j - 1) =>
            /\ Len(probeLog[k]) = j
            /\ pc[k] # "probe"
            /\ result[k] = probeLog[k][j]
            /\ KeyErrors(k) = <<>>

C9_Witness ==
    \E k \in Keys :
        /\ Len(probeLog[k]) = Retries
        /\ probeLog[k][Retries].kind = "ok"
        /\ Resolved(k) /\ records[k] # <<>>

(* C10: a page request that times out leaves an error line naming the    *)
(* page; the pages after it are still requested, the rows of the other   *)
(* pages are kept, and the postal code is not resolved as a failure.     *)
C10_PageTimeoutKeepsOthers ==
    \A k \in Keys : \A n \in 1 .. Len(pageLog[k]) :
        LET p == pageLog[k][n][1]
        IN  pageLog[k][n][2].kind = "timeout" =>
                /\ Logged(k, PageTimeout(p))
                /\ IF p < result[k].totalNumPages
                   THEN page[k] > p
                   ELSE Resolved(k)
                /\ records[k] = RowsOf(k, pageLog[k])
                /\ KeyErrors(k) = <<>>
                /\ result[k] # None

\* pages 1 and 3 answer, page 2 times out, and the run has ended
C10_Witness ==
    \E k \in Keys :
        /\ Ended
        /\ Len(pageLog[k]) = 3
        /\ pageLog[k][1][2].kind = "ok"
        /\ pageLog[k][2] = <<2, Timeout>>
        /\ pageLog[k][3][2].kind = "ok"
        /\ records[k] = <<<<k, 1, 1>>, <<k, 3, 1>>>>
        /\ errlog[k] = <<PageTimeout(2)>>

\* the rows of k in the table
RowsFor(k) == LET OfKey(row) == row[1] = k IN SelectSeq(df, OfKey)

RECURSIVE TotalRows(_)
\* the sizes of the result sets of the postal codes 0 .. n-1, added up
TotalRows(n) == IF n = 0 THEN 0 ELSE Len(records[n - 1]) + TotalRows(n - 1)

\* the gather that k's coroutine was handed to has returned
BatchReturned(k) == Ended \/ (Resolved(k) /\ ~InBatch(k))

(* C11: when download_data returns, the table holds as many rows as the  *)
(* result sets of all postal codes together, each result set once:       *)
(* nothing is dropped or duplicated by a periodic or the final merge.    *)
C11_NoRecordLost ==
    Ended =>
        /\ Len(df) = TotalRows(NumKeys)
        /\ \A k \in Keys : RowsFor(k) = records[k]

C11_Witness ==
    /\ Ended
    /\ \E k \in Keys : k < NumKeys - 1 /\ records[k] # <<>>
    /\ records[NumKeys - 1] # <<>>
    /\ Len(df) >= 3

(* C12: the coroutine of every postal code is handed to a gather exactly  *)
(* once, never twice and, when download_data returns, none not at all;    *)
(* once a postal code has resolved, no further request is issued for it.  *)
C12_SubmittedOnce ==
    [][\A k \in Keys :
          /\ submitted'[k] <= 1
          /\ Ended' => submitted'[k] = 1
          /\ Resolved(k) =>
                /\ Resolved(k)'
                /\ probeLog'[k] = probeLog[k]
                /\ pageLog'[k] = pageLog[k]]_vars

C12_Witness ==
    /\ Ended
    /\ \A k \in Keys : submitted[k] = 1
    /\ \E k \in Keys : Len(probeLog[k]) = Retries

(* C13: download_data returns only when every postal code has reached its *)
(* terminal outcome: none is unsubmitted or in progress then.             *)
C13_ReturnsAfterAllResolved ==
    Ended => \A k \in Keys : pc[k] = "done" /\ ~InFlight(k) /\ submitted[k] > 0

C13_Witness ==
    /\ mainpc = "downloaded"
    /\ faults = MaxFaults
    /\ \E k \in Keys : Len(pageLog[k]) = MaxPages

(* C14, as claimed: the result set of a postal code is in the table as    *)
(* soon as it has resolved, also while other postal codes are in progress.*)
C14_DeliveredAtOnce ==
    \A k \in Keys :
        Resolved(k) /\ (\E other \in Keys : InFlight(other)) => RowsFor(k) = records[k]

(* C14, amended: the result set of a postal code is merged into the table *)
(* when the gather of its batch returns, that is when every postal code   *)
(* of its batch has resolved, and not before; it does not wait for later  *)
(* batches.                                                               *)
C14_DeliveredWhenBatchReturns ==
    \A k \in Keys :
        RowsFor(k) = IF BatchReturned(k) THEN records[k] ELSE <<>>

C14_Witness ==
    \E k \in Keys :
        /\ Resolved(k) /\ records[k] # <<>>
        /\ Awaiting /\ InBatch(k)
        /\ \E other \in Keys : InFlight(other)
        /\ RowsFor(k) = <<>>

(* C15: every merge but the final one covers exactly BatchSize (B) postal *)
(* codes, and the results of at most B postal codes are pending.          *)
C15_BatchesOfB ==
    /\ Len(tasks) <= BatchSize
    /\ mainpc = "gather" => Len(tasks) = BatchSize

(* C16: after each periodic merge the table is in the output file: the    *)
(* rows of every postal code resolved so far are saved.                   *)
C16_SavedAtEachFlush ==
    mainpc = "loop" /\ i > 0 /\ tasks = <<>> => csv = df

(* C17: run returns only after the final merge and the save: then the     *)
(* rows of every postal code, those of the last partial batch too, are in *)
(* the table and in the file; the file is not written before every postal *)
(* code has resolved.                                                     *)
C17_SavedAfterFinalFlush ==
    /\ csv # NoFile => mainpc = "returned" /\ \A k \in Keys : Resolved(k)
    /\ mainpc = "returned" =>
          /\ csv = df
          /\ \A k \in Keys : Resolved(k) /\ RowsFor(k) = records[k]

C17_Witness ==
    /\ mainpc = "returned"
    /\ records[NumKeys - 1] # <<>>
    /\ \E n \in 1 .. Len(csv) : csv[n][1] = NumKeys - 1

(* C18: when every request is answered by a response or a timeout, the   *)
(* run comes to its end with every postal code resolved: a run either     *)
(* gets there or has seen a request end in another error.                 *)
C18_Terminates ==
    <>(\/ mainpc = "returned" /\ \A k \in Keys : Resolved(k)
       \/ \E k \in Keys : pc[k] = "raised")

C18_Witness ==
    /\ mainpc = "returned"
    /\ faults = MaxFaults
    /\ \A k \in Keys : Resolved(k)

(* C19: a write of the error log that fails does not raise into the       *)
(* operation that reported the error: the postal code still reaches its   *)
(* terminal outcome and the run goes on.                                  *)
C19_SinkFailureNeverRaises ==
    \A k \in Keys : sinkLost[k] > 0 => pc[k] # "raised" /\ mainpc # "aborted"

(* C20: a first-page answer of status 200 with found = 0 resolves the     *)
(* postal code as a success with no rows, no error line and no page       *)
(* request.                                                               *)
C20_NotFoundIsSuccess ==
    \A k \in Keys : \A j \in 1 .. Len(probeLog[k]) :
        probeLog[k][j].kind = "ok" /\ probeLog[k][j].found = 0 =>
            /\ Resolved(k)
            /\ result[k] = probeLog[k][j]
            /\ records[k] = <<>>
            /\ errlog[k] = <<>>
            /\ pageLog[k] = <<>>

C20_Witness ==
    \E k \in Keys :
        /\ probeLog[k] = <<Timeout, Json(0, 1, 0)>>
        /\ Resolved(k)
        /\ Ended

(* C21: after a first-page answer with found > 0, process_postal requests *)
(* each page 1 .. totalNumPages of that answer once, in ascending order,  *)
(* never again, and its result set is, page after page in that order,     *)
(* one row per item of every page that answered 200.                      *)
C21_OneGetPerPage ==
    \A k \in Keys :
        LET res == result[k]
            asked == Len(pageLog[k]) + (IF pc[k] = "page" THEN 1 ELSE 0)
        IN  /\ \A n \in 1 .. Len(pageLog[k]) : pageLog[k][n][1] = n
            /\ pc[k] = "page" => page[k] = asked
            /\ asked <= res.totalNumPages
            /\ asked > 0 => res = probeLog[k][Len(probeLog[k])] /\ res.found > 0
            /\ records[k] = RowsOf(k, pageLog[k])
            /\ Resolved(k) /\ res.kind = "ok" /\ res.found > 0 =>
                  Len(pageLog[k]) = res.totalNumPages

C21_Witness ==
    \E k \in Keys :
        /\ Resolved(k)
        /\ Len(pageLog[k]) = MaxPages
        /\ pageLog[k][1][2].kind = "timeout"
        /\ \E n \in 2 .. MaxPages : pageLog[k][n][2].kind = "ok" /\ pageLog[k][n][2].items = 2
        /\ Len(records[k]) = 3

(* C22: the coroutines issue their first requests in the order of the     *)
(* postal codes: when a postal code has issued its first request, every   *)
(* smaller one has issued its own.  The order of completion is free.      *)
C22_StartedInOrder ==
    [][\A k1, k2 \in Keys :
          k1 < k2 =>
              /\ Started(k2)' => Started(k1)'
              /\ ~Started(k1) /\ Started(k1)' => ~Started(k2)]_vars

C22_Witness ==
    \E k1, k2 \in Keys :
        /\ k1 < k2
        /\ InBatch(k1) /\ InBatch(k2)
        /\ Resolved(k2) /\ InFlight(k1)
RECURSIVE IntOf(_)
\* the integer a string of decimal digits denotes
IntOf(s) == IF s = <<>> THEN 0 ELSE 10 * IntOf(SubSeq(s, 1, Len(s) - 1)) + s[Len(s)]

\* a string of exactly Width decimal digits that denotes n
IsCodeOf(s, n) == Len(s) = Width /\ (\A d \in 1 .. Width : s[d] \in 0 .. 9) /\ IntOf(s) = n

\* the list postal_codes, which no step changes: its entries and the form of the
\* codes at both ends of the source's range and where the padding ends
ListWellFormed ==
    /\ \A n \in Keys : IsCodeOf(postal_codes(n), FirstCode + n)
    /\ \A n, m \in Keys : n < m => IntOf(postal_codes(n)) < IntOf(postal_codes(m))
    /\ \A n \in {FirstCode, 99999, 100000, SourceEnd - 1} : IsCodeOf(format_06d(n), n)
    /\ format_06d(FirstCode) = <<0, 1, 0, 0, 0, 0>>
    /\ format_06d(SourceEnd - 1) = <<8, 2, 9, 9, 9, 9>>

(* C23: the sequence of postal codes has one code for each integer from   *)
(* FirstCode on, each the zero-padded six-digit decimal form of its       *)
(* integer, in ascending order without repetition, the same in every run: *)
(* the n-th pass of the loop works on the code of FirstCode + n, and the  *)
(* form is right at both ends of the source's range and where the padding *)
(* ends.                                                                  *)
C23_KeySequence ==
    /\ IsCodeOf(postal_code, FirstCode + i)
    /\ ListWellFormed

C23_Witness ==
    /\ mainpc = "with"
    /\ i = NumKeys - 1
    /\ postal_code = ZeroPad(Digits(FirstCode + NumKeys - 1), Width)
    /\ postal_code[1] = 0
\* the line fetch_postal writes for the outcome r of its last attempt
LineFor(r) ==
    CASE r.kind = "http" -> HttpError(r.status)
      [] r.kind = "error" -> ExceptionText(r.text)
      [] OTHER -> TimeoutAfterRetries

(* C24: with an error log that can be written, fetch_postal has written   *)
(* exactly one line when it returns None, the line of its last attempt's  *)
(* outcome, and none when it returns an answer or is still trying,        *)
(* whatever outcomes the attempts had: a timeout followed by a non-200    *)
(* status leaves the HTTP line alone.                                     *)
C24_OneLinePerFailure ==
    \A k \in Keys :
        LET n == Len(probeLog[k]) IN
        /\ pc[k] = "probe" => KeyErrors(k) = <<>> /\ AllTimeouts(probeLog[k], n)
        /\ result[k] # None => KeyErrors(k) = <<>> /\ probeLog[k][n] = result[k]
        /\ Resolved(k) /\ result[k] = None =>
              /\ n > 0
              /\ errlog[k] = <<LineFor(probeLog[k][n])>>
              /\ probeLog[k][n].kind # "ok"
              /\ probeLog[k][n].kind = "timeout" => n = Retries

C24_Witness ==
    \E k \in Keys :
        /\ Resolved(k)
        /\ probeLog[k] = <<Timeout, Http(500)>>
        /\ errlog[k] = <<HttpError(500)>>
        /\ result[k] = None

\* the batch of each postal code: the flushes the loop has made before reaching it
Batches == [k \in Keys |-> Cardinality({n \in 0 .. k - 1 : flush_due(n)})]
BatchOf(k) == Batches[k]

(* C25: a postal code of a later batch issues no request before every     *)
(* postal code of the batches before has reached its terminal outcome and *)
(* its rows are in the table; postal codes of two batches are never in    *)
(* progress together.                                                     *)
C25_BatchBarrier ==
    \A k1, k2 \in Keys :
        BatchOf(k1) < BatchOf(k2) =>
            /\ Started(k2) => Resolved(k1) /\ RowsFor(k1) = records[k1]
            /\ ~(InFlight(k1) /\ InFlight(k2))

C25_Witness ==
    \E k1, k2 \in Keys :
        /\ BatchOf(k1) < BatchOf(k2)
        /\ InFlight(k2)
        /\ Resolved(k1) /\ records[k1] # <<>> /\ RowsFor(k1) = records[k1]
RECURSIVE TableOf(_)
\* the table the answers to the page requests of postal codes 0 .. n-1 determine:
\* postal code after postal code, page after page, item after item
TableOf(n) == IF n = 0 THEN <<>> ELSE TableOf(n - 1) \o RowsOf(n - 1, pageLog[n - 1])

\* row a stands before row b in the order of postal code, page and item
RowBefore(a, b) ==
    \/ a[1] < b[1]
    \/ a[1] = b[1] /\ a[2] < b[2]
    \/ a[1] = b[1] /\ a[2] = b[2] /\ a[3] < b[3]

(* C26: the final table is determined by the answers the requests got,    *)
(* whatever the order in which the coroutines ran and completed: its rows *)
(* stand in the order of the postal codes and, within one, of the pages.  *)
C26_TableDetermined ==
    Ended =>
        /\ df = TableOf(NumKeys)
        /\ \A a, b \in 1 .. Len(df) : a < b => RowBefore(df[a], df[b])

C26_Witness ==
    /\ Ended
    /\ \E k1, k2 \in Keys :
          /\ k1 < k2 /\ BatchOf(k1) = BatchOf(k2)
          /\ records[k1] # <<>> /\ Len(records[k2]) > 1
    /\ records[NumKeys - 1] # <<>>
    /\ faults > 0
(* C27: the requests of one postal code follow one another: its request   *)
(* in flight is the one after all its answered ones, a page is requested  *)
(* only after the first-page request was answered 200 with found > 0, and *)
(* a postal code whose first-page request failed for good requests no     *)
(* page.                                                                  *)
C27_SequentialRequests ==
    \A k \in Keys :
        LET n == Len(probeLog[k]) IN
        /\ pc[k] = "probe" => attempt[k] = n /\ pageLog[k] = <<>>
        /\ pc[k] = "page" => page[k] = Len(pageLog[k]) + 1
        /\ pc[k] = "page" \/ pageLog[k] # <<>> =>
              /\ n > 0
              /\ probeLog[k][n].kind = "ok"
              /\ probeLog[k][n].status = HTTP_OK
              /\ probeLog[k][n].found > 0
              /\ AllTimeouts(probeLog[k], n - 1)
        /\ KeyErrors(k) # <<>> => pageLog[k] = <<>> /\ pc[k] # "page"

C27_Witness ==
    /\ \E k \in Keys :
          /\ pc[k] = "page" /\ page[k] = 2
          /\ Len(probeLog[k]) = 2 /\ probeLog[k][1] = Timeout
    /\ \E k \in Keys : Resolved(k) /\ KeyErrors(k) # <<>> /\ pageLog[k] = <<>>
\* the postal codes of the table that was read, as load_data makes them
InputCodes == {astype_str(input_file[n].postal_code) : n \in 1 .. Len(input_file)}
\* the rows of the table that was read, as load_data makes them
LoadedRows == {read_csv(input_file)[n] : n \in 1 .. Len(input_file)}

(* C28: after load_data and deduplicate the result has exactly one row    *)
(* for each distinct postal code of the input, every row of it is a row   *)
(* of the input, and the row kept for a postal code has the highest       *)
(* parent score of the input rows of that postal code.                    *)
C28_OneRowPerPostalCode ==
    corrector_pc = "deduplicated" =>
        LET codes == InputCodes
            rows == LoadedRows
        IN  /\ Len(result_df) = Cardinality(codes)
            /\ \A code \in codes :
                  Cardinality({n \in 1 .. Len(result_df) : result_df[n].postal_code = code}) = 1
            /\ \A n \in 1 .. Len(result_df) :
                  /\ result_df[n] \in rows
                  /\ \A row \in {r \in rows : r.postal_code = result_df[n].postal_code} :
                        calculate_parent_building_score(row)
                            <= calculate_parent_building_score(result_df[n])

C28_Witness ==
    /\ corrector_pc = "deduplicated"
    /\ Len(input_file) = MaxRows
    /\ Len(result_df) = 2
    /\ \E n, m \in 1 .. Len(input_file) :
          /\ input_file[n].postal_code = input_file[m].postal_code
          /\ calculate_parent_building_score(read_csv(input_file)[n])
                < calculate_parent_building_score(read_csv(input_file)[m])
          /\ result_df[2] = read_csv(input_file)[m]
          /\ input_file[n].blk_no.text = <<"4", "5">>
          /\ read_csv(input_file)[n].blk_no = <<"4", "5", ".", "0">>
====
